---- MODULE Spec2Model ----
(***************************************************************************)
(* Text sanitisation and tag extraction of rslib/src/text.rs.              *)
(*                                                                         *)
(* A text is a TLA+ string; positions are 1-based.  A regex match is a     *)
(* record [start, stop, ...] where start is the position of its first      *)
(* character and stop the position after its last one (Match::end()),      *)
(* start = 0 meaning "no match".  The regex crate finds the leftmost       *)
(* match, prefers the earlier alternative and the shorter repetition for   *)
(* a lazy quantifier (the longer one for a greedy quantifier), and         *)
(* iterates over successive non-overlapping matches.                       *)
(***************************************************************************)
EXTENDS Integers, Sequences, FiniteSets, TLC

VARIABLES
    text,   \* the &str handed to the operation
    args,   \* the argument string handed to tts_tag_from_string
    op,     \* the operation that acted last ("init": none yet)
    out,    \* the Cow<str> it returned
    tags,   \* the Vec<AVTag> collected from av_tags_in_string
    nums    \* the HashSet<u16> returned by cloze_numbers_in_string

vars == <<text, args, op, out, tags, nums>>

(***************************************************************************)
(* Strings                                                                 *)
(***************************************************************************)

\* The character of s at position i.
Char(s, i) == SubSeq(s, i, i)

\* lit occurs in s at position i.
StartsWithAt(s, i, lit) ==
    /\ i >= 1
    /\ i + Len(lit) - 1 <= Len(s)
    /\ SubSeq(s, i, i + Len(lit) - 1) = lit

\* The first position >= i where lit occurs in s, 0 when there is none.
RECURSIVE Find(_, _, _)
Find(s, i, lit) ==
    IF i + Len(lit) - 1 > Len(s) THEN 0
    ELSE IF SubSeq(s, i, i + Len(lit) - 1) = lit THEN i
    ELSE Find(s, i + 1, lit)

\* The text from position i to the end.
From(s, i) == SubSeq(s, i, Len(s))

\* Cow<str>: Borrowed refers to the buffer named buf ("input": the argument
\* of the operation), Owned is a new String.
Borrowed(s, buf) == [kind |-> "Borrowed", buf |-> buf, s |-> s]
Owned(s) == [kind |-> "Owned", buf |-> "heap", s |-> s]
NoCow == [kind |-> "None", buf |-> "", s |-> ""]

NoMatch == [start |-> 0, stop |-> 0, alt |-> 0, g1 |-> "", g2 |-> "", g3 |-> ""]

\* Regex::replace_all given the captures found in s and, for each, the text
\* that replaces it: the text before each match is copied, then the
\* replacement, and the text after the last match at the end.
RECURSIVE ReplaceAppend(_, _, _, _, _)
ReplaceAppend(s, caps, reps, n, last_match) ==
    IF n > Len(caps) THEN From(s, last_match)
    ELSE SubSeq(s, last_match, caps[n].start - 1) \o reps[n]
            \o ReplaceAppend(s, caps, reps, n + 1, caps[n].stop)

replace_all(s, buf, caps, reps) ==
    IF caps = <<>> THEN Borrowed(s, buf)
    ELSE Owned(ReplaceAppend(s, caps, reps, 1, 1))

(***************************************************************************)
(* AV_TAGS                                                                 *)
(***************************************************************************)

\* The last position >= i where lit occurs in s, 0 when there is none.
RECURSIVE FindLast(_, _, _)
FindLast(s, i, lit) ==
    LET p == Find(s, i, lit) IN
    IF p = 0 THEN 0
    ELSE LET q == FindLast(s, p + 1, lit) IN IF q = 0 THEN p ELSE q

\* The sound tag written with a greedy (.*): it runs to the last ']'.
AvMatchAtGreedy(s, i) ==
    IF StartsWithAt(s, i, "[sound:") THEN
        LET j == FindLast(s, i + 7, "]") IN
        IF j = 0 THEN NoMatch
        ELSE [start |-> i, stop |-> j + 1, alt |-> 1,
              g1 |-> SubSeq(s, i + 7, j - 1), g2 |-> "", g3 |-> ""]
    ELSE IF StartsWithAt(s, i, "[anki:tts][") THEN
        LET j == Find(s, i + 11, "]")
            k == IF j = 0 THEN 0 ELSE Find(s, j + 1, "[/anki:tts]")
        IN  IF k = 0 THEN NoMatch
            ELSE [start |-> i, stop |-> k + 11, alt |-> 2, g1 |-> "",
                  g2 |-> SubSeq(s, i + 11, j - 1),
                  g3 |-> SubSeq(s, j + 1, k - 1)]
    ELSE NoMatch

\* A match of AV_TAGS starting exactly at position i.
AvMatchAt(s, i) ==
    IF StartsWithAt(s, i, "[sound:") THEN
        LET j == Find(s, i + 7, "]") IN
        IF j = 0 THEN NoMatch
        ELSE [start |-> i, stop |-> j + 1, alt |-> 1,
              g1 |-> SubSeq(s, i + 7, j - 1), g2 |-> "", g3 |-> ""]
    ELSE IF StartsWithAt(s, i, "[anki:tts][") THEN
        LET j == Find(s, i + 11, "]")
            k == IF j = 0 THEN 0 ELSE Find(s, j + 1, "[/anki:tts]")
        IN  IF k = 0 THEN NoMatch
            ELSE [start |-> i, stop |-> k + 11, alt |-> 2, g1 |-> "",
                  g2 |-> SubSeq(s, i + 11, j - 1),
                  g3 |-> SubSeq(s, j + 1, k - 1)]
    ELSE NoMatch

\* The leftmost match of AV_TAGS starting at position i or later.
RECURSIVE AvFind(_, _)
AvFind(s, i) ==
    IF i > Len(s) THEN NoMatch
    ELSE LET m == AvMatchAt(s, i) IN
         IF m.start # 0 THEN m ELSE AvFind(s, i + 1)

\* AV_TAGS.captures_iter(s): the successive non-overlapping matches.
RECURSIVE AvCapturesFrom(_, _)
AvCapturesFrom(s, i) ==
    LET m == AvFind(s, i) IN
    IF m.start = 0 THEN <<>> ELSE <<m>> \o AvCapturesFrom(s, m.stop)

AvCaptures(s) == AvCapturesFrom(s, 1)

\* Regex::replace in place of replace_all: only the first match goes.
strip_av_tags_first_only(s) ==
    LET caps == AvCaptures(s) IN
    replace_all(s, "input", IF caps = <<>> THEN <<>> ELSE <<caps[1]>>, <<"">>)

\* AV_TAGS.replace_all(text, "").
strip_av_tags(s) ==
    LET caps == AvCaptures(s) IN
    replace_all(s, "input", caps, [n \in 1..Len(caps) |-> ""])

\* format!("{}", idx) of a non-negative integer.
Digit(d) == SubSeq("0123456789", d + 1, d + 1)

RECURSIVE FormatInt(_)
FormatInt(n) == IF n < 10 THEN Digit(n) ELSE FormatInt(n \div 10) \o Digit(n % 10)

\* The closure of flag_av_tags called once per capture, idx being its
\* captured counter: the replacements it returns.
RECURSIVE FlagClosure(_, _, _)
FlagClosure(caps, n, idx) ==
    IF n > Len(caps) THEN <<>>
    ELSE <<"[anki:play]" \o FormatInt(idx) \o "[/anki:play]">>
            \o FlagClosure(caps, n + 1, idx + 1)

\* A counter that starts at 1.
flag_av_tags_from_one(s) ==
    LET caps == AvCaptures(s) IN
    replace_all(s, "input", caps, FlagClosure(caps, 1, 1))

flag_av_tags(s) ==
    LET caps == AvCaptures(s) IN
    replace_all(s, "input", caps, FlagClosure(caps, 1, 0))

(***************************************************************************)
(* HTML and IMG_TAG                                                        *)
(***************************************************************************)

\* The (?i) flag: ASCII letters compare by their lower-case form.
UpperCase == "ABCDEFGHIJKLMNOPQRSTUVWXYZ"
LowerCase == "abcdefghijklmnopqrstuvwxyz"
LowerMap ==
    [c \in {Char(UpperCase, n) : n \in 1..Len(UpperCase)} |->
        Char(LowerCase, Find(UpperCase, 1, c))]

Lower(c) == IF c \in DOMAIN LowerMap THEN LowerMap[c] ELSE c

RECURSIVE LowerStr(_)
LowerStr(s) == IF s = "" THEN "" ELSE Lower(Head(s)) \o LowerStr(Tail(s))

\* lit (given in lower case) occurs in s at position i, letter case ignored.
StartsWithAtCI(s, i, lit) ==
    /\ i >= 1
    /\ i + Len(lit) - 1 <= Len(s)
    /\ LowerStr(SubSeq(s, i, i + Len(lit) - 1)) = lit

RECURSIVE FindCI(_, _, _)
FindCI(s, i, lit) ==
    IF i + Len(lit) - 1 > Len(s) THEN 0
    ELSE IF Lower(Char(s, i)) = Head(lit) /\ StartsWithAtCI(s, i, lit) THEN i
    ELSE FindCI(s, i + 1, lit)

\* <name.*?>.*?</name>: the first '>' after the opener, then the first
\* closer after that '>'.
HtmlBlockStop(s, i, opener, closer) ==
    IF ~StartsWithAtCI(s, i, opener) THEN 0
    ELSE LET j == Find(s, i + Len(opener), ">")
             k == IF j = 0 THEN 0 ELSE FindCI(s, j + 1, closer)
         IN  IF k = 0 THEN 0 ELSE k + Len(closer)

\* The generic tag written <[^<]*?>: a tag holds no '<'.
HtmlMatchAtNoNested(s, i) ==
    IF Char(s, i) # "<" THEN NoMatch ELSE
    LET c == IF StartsWithAt(s, i, "<!--") THEN Find(s, i + 4, "-->") ELSE 0
        st == HtmlBlockStop(s, i, "<style", "</style>")
        sc == HtmlBlockStop(s, i, "<script", "</script>")
        e == Find(s, i + 1, ">")
        g == IF e # 0 /\ Find(SubSeq(s, i + 1, e), 1, "<") = 0 THEN e ELSE 0
        m(stop, alt) == [NoMatch EXCEPT !.start = i, !.stop = stop, !.alt = alt]
    IN  IF c # 0 THEN m(c + 3, 1)
        ELSE IF st # 0 THEN m(st, 2)
        ELSE IF sc # 0 THEN m(sc, 3)
        ELSE IF g # 0 THEN m(g + 1, 4)
        ELSE NoMatch

\* A match of HTML starting exactly at position i: the first alternative
\* that matches there wins.
HtmlMatchAt(s, i) ==
    IF Char(s, i) # "<" THEN NoMatch ELSE
    LET c == IF StartsWithAt(s, i, "<!--") THEN Find(s, i + 4, "-->") ELSE 0
        st == HtmlBlockStop(s, i, "<style", "</style>")
        sc == HtmlBlockStop(s, i, "<script", "</script>")
        g == IF StartsWithAt(s, i, "<") THEN Find(s, i + 1, ">") ELSE 0
        m(stop, alt) == [NoMatch EXCEPT !.start = i, !.stop = stop, !.alt = alt]
    IN  IF c # 0 THEN m(c + 3, 1)
        ELSE IF st # 0 THEN m(st, 2)
        ELSE IF sc # 0 THEN m(sc, 3)
        ELSE IF g # 0 THEN m(g + 1, 4)
        ELSE NoMatch

RECURSIVE HtmlFind(_, _)
HtmlFind(s, i) ==
    IF i > Len(s) THEN NoMatch
    ELSE LET m == HtmlMatchAt(s, i) IN
         IF m.start # 0 THEN m ELSE HtmlFind(s, i + 1)

RECURSIVE HtmlCapturesFrom(_, _)
HtmlCapturesFrom(s, i) ==
    LET m == HtmlFind(s, i) IN
    IF m.start = 0 THEN <<>> ELSE <<m>> \o HtmlCapturesFrom(s, m.stop)

HtmlCaptures(s) == HtmlCapturesFrom(s, 1)

\* HTML.replace_all(s, rep) for a literal rep, s living in buffer buf.
HtmlReplaceAll(s, buf, rep) ==
    LET caps == HtmlCaptures(s) IN
    replace_all(s, buf, caps, [n \in 1..Len(caps) |-> rep])

strip_html(html) == HtmlReplaceAll(html, "input", "")

IsQuote(c) == c = "\"" \/ c = "'"

\* The end of the longest run of [^"'>] starting at position i (the position
\* after its last character; i itself when the run is empty).
RECURSIVE FnameStop(_, _)
FnameStop(s, i) ==
    IF i > Len(s) \/ IsQuote(Char(s, i)) \/ Char(s, i) = ">" THEN i
    ELSE FnameStop(s, i + 1)

\* The filename captured after a src= at position p, "" when ["']?([^"'>]+)
\* cannot match there.
ImgFname(s, p) ==
    LET q == p + 4
        q1 == IF IsQuote(Char(s, q)) THEN q + 1 ELSE q
    IN  SubSeq(s, q1, FnameStop(s, q1) - 1)

\* [^>]+ is greedy: the last src= between lo and hi after which a filename
\* can be captured, 0 when there is none.
RECURSIVE ImgSrcAt(_, _, _)
ImgSrcAt(s, lo, p) ==
    IF p < lo THEN 0
    ELSE IF Lower(Char(s, p)) = "s" /\ StartsWithAtCI(s, p, "src=")
            /\ ImgFname(s, p) # "" THEN p
    ELSE ImgSrcAt(s, lo, p - 1)

\* A match of IMG_TAG starting exactly at position i: it ends at the first
\* '>' after <img, none of its parts matching a '>'.
ImgMatchAt(s, i) ==
    IF Char(s, i) # "<" \/ ~StartsWithAtCI(s, i, "<img") THEN NoMatch
    ELSE LET e == Find(s, i + 4, ">")
             p == IF e = 0 THEN 0 ELSE ImgSrcAt(s, i + 5, e - 4)
         IN  IF p = 0 THEN NoMatch
             ELSE [NoMatch EXCEPT !.start = i, !.stop = e + 1, !.alt = 1,
                                  !.g1 = ImgFname(s, p)]

RECURSIVE ImgFind(_, _)
ImgFind(s, i) ==
    IF i > Len(s) THEN NoMatch
    ELSE LET m == ImgMatchAt(s, i) IN
         IF m.start # 0 THEN m ELSE ImgFind(s, i + 1)

RECURSIVE ImgCapturesFrom(_, _)
ImgCapturesFrom(s, i) ==
    LET m == ImgFind(s, i) IN
    IF m.start = 0 THEN <<>> ELSE <<m>> \o ImgCapturesFrom(s, m.stop)

ImgCaptures(s) == ImgCapturesFrom(s, 1)

\* IMG_TAG.replace_all(html, " $1 ").
ImgReplaceAll(s, buf) ==
    LET caps == ImgCaptures(s) IN
    replace_all(s, buf, caps, [n \in 1..Len(caps) |-> " " \o caps[n].g1 \o " "])

\* Without the ptr::eq test: any borrow counts as "no changes".
strip_html_preserving_image_filenames_no_ptr_eq(html) ==
    LET without_fnames == ImgReplaceAll(html, "input")
        without_html == HtmlReplaceAll(without_fnames.s, "without_fnames", "")
    IN  IF without_html.kind = "Borrowed"
        THEN Borrowed(html, "input")
        ELSE Owned(without_html.s)

\* ptr::eq(b, html) holds only of a borrow of the whole argument: a String
\* allocated by a replacement lives elsewhere.
strip_html_preserving_image_filenames(html) ==
    LET without_fnames == ImgReplaceAll(html, "input")
        without_html ==
            HtmlReplaceAll(without_fnames.s,
                           IF without_fnames.kind = "Borrowed"
                           THEN without_fnames.buf ELSE "without_fnames",
                           "")
    IN  IF without_html.kind = "Borrowed" /\ without_html.buf = "input"
        THEN Borrowed(html, "input")
        ELSE Owned(without_html.s)

(***************************************************************************)
(* Entities                                                                *)
(***************************************************************************)

\* The value of the digit c in the given radix, -1 when it is none.
DigitValue(c, radix) ==
    LET p == IF Len(c) = 1 THEN Find("0123456789abcdef", 1, Lower(c)) ELSE 0 IN
    IF p = 0 \/ p > radix THEN -1 ELSE p - 1

\* u32::from_str_radix: -1 for an Err (no digit, a bad digit, a value over
\* u32::MAX), -2 for a value over 0x10FFFF that fits u32, else the value.
\* The value is carried as hi * 65536 + lo.
RECURSIVE FromStrRadix(_, _, _, _, _)
FromStrRadix(buf, radix, n, hi, lo) ==
    IF n > Len(buf) THEN
        IF Len(buf) = 0 THEN -1 ELSE IF hi > 16 THEN -2 ELSE hi * 65536 + lo
    ELSE LET d == DigitValue(Char(buf, n), radix)
             l == lo * radix + d
             h == hi * radix + (l \div 65536)
         IN  IF d < 0 \/ h > 65535 THEN -1
             ELSE FromStrRadix(buf, radix, n + 1, h, l % 65536)

DecodeOk(t) == [ok |-> TRUE, text |-> t, position |-> 0, kind |-> ""]
DecodeErr(position, kind) ==
    [ok |-> FALSE, text |-> "", position |-> position, kind |-> kind]

\* htmlescape's table of named entities, cut to the names the inputs use.
decode_named_entity(name) ==
    CASE name = "amp" -> DecodeOk("&")
      [] name = "lt" -> DecodeOk("<")
      [] name = "gt" -> DecodeOk(">")
      [] name = "quot" -> DecodeOk("\"")
      [] OTHER -> DecodeErr(0, "UnknownEntity")

\* char::from_u32 of a valid code point; a character that is no ASCII
\* letter, digit, space, '&', '<' or '>' is written "?" here.
CharOfCode(n) ==
    IF n >= 48 /\ n <= 57 THEN Char("0123456789", n - 47)
    ELSE IF n >= 65 /\ n <= 90 THEN Char("ABCDEFGHIJKLMNOPQRSTUVWXYZ", n - 64)
    ELSE IF n >= 97 /\ n <= 122 THEN Char("abcdefghijklmnopqrstuvwxyz", n - 96)
    ELSE CASE n = 32 -> " " [] n = 38 -> "&" [] n = 60 -> "<" [] n = 62 -> ">"
           [] OTHER -> "?"

\* htmlescape's decode_numeric.
decode_numeric(buf, radix) ==
    LET n == FromStrRadix(buf, radix, 1, 0, 0) IN
    IF n = -1 THEN DecodeErr(0, "MalformedNumEscape")
    ELSE IF n = -2 \/ (n >= 55296 /\ n <= 57343)
        THEN DecodeErr(0, "InvalidCharacter")
    ELSE DecodeOk(CharOfCode(n))

\* One turn of the loop of htmlescape::decode_html on the character c: st
\* holds the decoder's state, its position, the position after the last
\* decoded character, the entity being read and what was written; err names
\* the error that ends the pass.
DecodeStep(c, st) ==
    LET to(state, buf, writer) ==
            [st EXCEPT !.state = state, !.buf = buf, !.writer = writer,
                       !.pos = @ + 1,
                       !.good_pos = IF state = "Normal" THEN st.pos + 1 ELSE @]
        fail(kind) == [st EXCEPT !.err = kind]
        parsed(r) == IF r.ok THEN to("Normal", "", st.writer \o r.text)
                     ELSE fail(r.kind)
    IN  CASE st.state = "Normal" /\ c = "&" -> to("Entity", st.buf, st.writer)
          [] st.state = "Normal" /\ c # "&" -> to("Normal", st.buf, st.writer \o c)
          [] st.state = "Entity" /\ c = "#" -> to("Numeric", st.buf, st.writer)
          [] st.state = "Entity" /\ c = ";" -> fail("UnknownEntity")
          [] st.state = "Entity" /\ c # "#" /\ c # ";" ->
                to("Named", st.buf \o c, st.writer)
          [] st.state = "Named" /\ c = ";" -> parsed(decode_named_entity(st.buf))
          [] st.state = "Named" /\ c # ";" -> to("Named", st.buf \o c, st.writer)
          [] st.state = "Numeric" /\ DigitValue(c, 10) >= 0 ->
                to("Dec", st.buf \o c, st.writer)
          [] st.state = "Numeric" /\ c = "x" -> to("Hex", st.buf, st.writer)
          [] st.state = "Dec" /\ c = ";" -> parsed(decode_numeric(st.buf, 10))
          [] st.state = "Hex" /\ c = ";" -> parsed(decode_numeric(st.buf, 16))
          [] st.state = "Hex" /\ c # ";" /\ DigitValue(c, 16) >= 0 ->
                to("Hex", st.buf \o c, st.writer)
          [] st.state = "Dec" /\ c # ";" /\ DigitValue(c, 10) >= 0 ->
                to("Dec", st.buf \o c, st.writer)
          [] OTHER -> fail("MalformedNumEscape")

\* htmlescape::decode_html: one pass over the characters; the first error
\* ends the pass and is all that is returned.
RECURSIVE DecodeHtmlRw(_, _)
DecodeHtmlRw(s, st) ==
    IF st.err # "" THEN DecodeErr(st.good_pos, st.err)
    ELSE IF st.pos >= Len(s) THEN
        IF st.state # "Normal" THEN DecodeErr(st.good_pos, "PrematureEnd")
        ELSE DecodeOk(st.writer)
    ELSE DecodeHtmlRw(s, DecodeStep(Char(s, st.pos + 1), st))

decode_html(s) ==
    DecodeHtmlRw(s, [state |-> "Normal", pos |-> 0, good_pos |-> 0, buf |-> "",
                     writer |-> "", err |-> ""])

\* format!("{:?}", e) of a DecodeErr.
DebugDecodeErr(e) ==
    "DecodeErr { position: " \o FormatInt(e.position) \o ", kind: " \o e.kind \o " }"

decode_entities(html) ==
    IF Find(html, 1, "&") # 0 THEN
        LET r == decode_html(html) IN
        Owned(IF r.ok THEN r.text ELSE DebugDecodeErr(r))
    ELSE Borrowed(html, "input")

\* Tags replaced by nothing, as strip_html does.
strip_html_for_tts_no_space(html) ==
    LET r == HtmlReplaceAll(html, "input", "") IN
    IF r.kind = "Borrowed" THEN decode_entities(html)
    ELSE Owned(decode_entities(r.s).s)

strip_html_for_tts(html) ==
    LET r == HtmlReplaceAll(html, "input", " ") IN
    IF r.kind = "Borrowed" THEN decode_entities(html)
    ELSE Owned(decode_entities(r.s).s)

(***************************************************************************)
(* AV tags                                                                 *)
(***************************************************************************)

\* str::split(sep) for a one-character sep: "" splits into <<"">>.
RECURSIVE Split(_, _)
Split(s, sep) ==
    LET p == Find(s, 1, sep) IN
    IF p = 0 THEN <<s>> ELSE <<SubSeq(s, 1, p - 1)>> \o Split(From(s, p + 1), sep)

\* The first voices= token wins.
RECURSIVE TtsArgsLoopFirstWins(_, _, _)
TtsArgsLoopFirstWins(split_args, n, st) ==
    IF n > Len(split_args) THEN st
    ELSE LET remaining_arg == split_args[n] IN
         IF StartsWithAt(remaining_arg, 1, "voices=")
         THEN TtsArgsLoopFirstWins(split_args, n + 1,
                  IF st.some THEN st
                  ELSE [st EXCEPT !.some = TRUE,
                             !.voices = Split(Split(remaining_arg, "=")[2], ",")])
         ELSE TtsArgsLoopFirstWins(split_args, n + 1,
                  [st EXCEPT !.other_args = Append(@, remaining_arg)])

\* Empty tokens dropped, as split_whitespace would.
RECURSIVE TtsArgsLoopNoEmpty(_, _, _)
TtsArgsLoopNoEmpty(split_args, n, st) ==
    IF n > Len(split_args) THEN st
    ELSE LET remaining_arg == split_args[n] IN
         IF StartsWithAt(remaining_arg, 1, "voices=")
         THEN TtsArgsLoopNoEmpty(split_args, n + 1,
                  [st EXCEPT !.some = TRUE,
                             !.voices = Split(Split(remaining_arg, "=")[2], ",")])
         ELSE TtsArgsLoopNoEmpty(split_args, n + 1,
                  IF remaining_arg = "" THEN st
                  ELSE [st EXCEPT !.other_args = Append(@, remaining_arg)])

\* The loop of tts_tag_from_string over the tokens after the first: st holds
\* voices (none: Option::None) and other_args.
RECURSIVE TtsArgsLoop(_, _, _)
TtsArgsLoop(split_args, n, st) ==
    IF n > Len(split_args) THEN st
    ELSE LET remaining_arg == split_args[n] IN
         IF StartsWithAt(remaining_arg, 1, "voices=")
         THEN TtsArgsLoop(split_args, n + 1,
                  [st EXCEPT !.some = TRUE,
                             !.voices = Split(Split(remaining_arg, "=")[2], ",")])
         ELSE TtsArgsLoop(split_args, n + 1,
                  [st EXCEPT !.other_args = Append(@, remaining_arg)])

tts_tag_from_string(field_text, a) ==
    LET split_args == Split(a, " ")
        lang == split_args[1]
        st == TtsArgsLoop(split_args, 2,
                          [some |-> FALSE, voices |-> <<>>, other_args |-> <<>>])
    IN  [type |-> "TextToSpeech",
         field_text |-> strip_html_for_tts(field_text).s,
         lang |-> lang,
         voices |-> IF st.some THEN st.voices ELSE <<>>,
         other_args |-> st.other_args]

SoundOrVideo(file) == [type |-> "SoundOrVideo", file |-> file]

\* The closure av_tags_in_string maps over the captures.
AvTagOfCaps(caps) ==
    IF caps.alt = 1 THEN SoundOrVideo(decode_entities(caps.g1).s)
    ELSE tts_tag_from_string(caps.g3, caps.g2)

av_tags_in_string(s) ==
    LET caps == AvCaptures(s) IN [n \in 1..Len(caps) |-> AvTagOfCaps(caps[n])]

(***************************************************************************)
(* Cloze numbers                                                           *)
(***************************************************************************)

\* A decimal digit that is not an ASCII digit (such as U+0663): \d matches
\* it and u16's parse rejects it.  The character "~" stands for it.
NonAsciiDigit == "~"

IsDigit(c) == Len(c) = 1 /\ (DigitValue(c, 10) >= 0 \/ c = NonAsciiDigit)

\* The end of the longest run of \d starting at position i.
RECURSIVE DigitsStop(_, _)
DigitsStop(s, i) ==
    IF i > Len(s) \/ ~IsDigit(Char(s, i)) THEN i ELSE DigitsStop(s, i + 1)

\* A match of CLOZED_TEXT starting exactly at position i.
ClozeMatchAt(s, i) ==
    IF ~StartsWithAt(s, i, "{{c") THEN NoMatch
    ELSE LET d == DigitsStop(s, i + 3)
             k == IF d > i + 3 /\ StartsWithAt(s, d, "::")
                  THEN Find(s, d + 3, "}}") ELSE 0
         IN  IF k = 0 THEN NoMatch
             ELSE [NoMatch EXCEPT !.start = i, !.stop = k + 2, !.alt = 1,
                                  !.g1 = SubSeq(s, i + 3, d - 1)]

RECURSIVE ClozeFind(_, _)
ClozeFind(s, i) ==
    IF i > Len(s) THEN NoMatch
    ELSE LET m == ClozeMatchAt(s, i) IN
         IF m.start # 0 THEN m ELSE ClozeFind(s, i + 1)

RECURSIVE ClozeCapturesFrom(_, _)
ClozeCapturesFrom(s, i) ==
    LET m == ClozeFind(s, i) IN
    IF m.start = 0 THEN <<>> ELSE <<m>> \o ClozeCapturesFrom(s, m.stop)

ClozeCaptures(s) == ClozeCapturesFrom(s, 1)

U16Max == 65535

\* A parse that wraps around instead of failing on overflow.
RECURSIVE ParseU16Wrapping(_, _, _)
ParseU16Wrapping(d, n, acc) ==
    IF n > Len(d) THEN (IF Len(d) = 0 THEN -1 ELSE acc)
    ELSE LET v == DigitValue(Char(d, n), 10) IN
         IF v < 0 THEN -1
         ELSE ParseU16Wrapping(d, n + 1, (acc * 10 + v) % 65536)

\* str::parse::<u16>: -1 for an Err (a character that is no ASCII digit, or
\* a value that overflows u16).
RECURSIVE ParseU16(_, _, _)
ParseU16(d, n, acc) ==
    IF n > Len(d) THEN (IF Len(d) = 0 THEN -1 ELSE acc)
    ELSE LET v == DigitValue(Char(d, n), 10) IN
         IF v < 0 \/ acc * 10 + v > U16Max THEN -1
         ELSE ParseU16(d, n + 1, acc * 10 + v)

\* The loop of cloze_numbers_in_string from the n-th capture on.
RECURSIVE ClozeLoop(_, _, _)
ClozeLoop(caps, n, hash) ==
    IF n > Len(caps) THEN hash
    ELSE LET r == ParseU16(caps[n].g1, 1, 0) IN
         ClozeLoop(caps, n + 1, IF r >= 0 THEN hash \cup {r} ELSE hash)

cloze_numbers_in_string(html) == ClozeLoop(ClozeCaptures(html), 1, {})

(***************************************************************************)
(* Inputs                                                                  *)
(***************************************************************************)

RECURSIVE Flatten(_)
Flatten(fs) == IF fs = <<>> THEN "" ELSE Head(fs) \o Flatten(Tail(fs))

\* The texts made of at most n fragments of frags.
Texts(frags, n) ==
    { Flatten([i \in 1..Len(p) |-> frags[p[i]]]) :
        p \in UNION { [1..k -> 1..Len(frags)] : k \in 0..n } }

MaxAvFrags == 4
AvFrags ==
    <<"[sound:a]", "[sound:", "]", "[anki:tts][b]", "[/anki:tts]", "[so",
      "und:]">>
AvTexts == Texts(AvFrags, MaxAvFrags)

MaxTtsFrags == 4
TtsFrags ==
    <<"[anki:tts][en]", "a<b>", "&gt;", "[/anki:tts]", "[sound:&amp;]", "&",
      "[sound:">>
TtsTexts == Texts(TtsFrags, MaxTtsFrags)

MaxArgFrags == 4
ArgFrags == <<"en ", "voices=a,b", " voices=", " ", "x", "=c">>
ArgTexts == Texts(ArgFrags, MaxArgFrags)
FieldTexts == {"", "a<b>&lt;"}

MaxHtmlFrags == 4
HtmlFrags ==
    <<"<", ">", "x", "<!--", "-->", "<sTyle", "</style>", "<img src=">>
HtmlTexts == Texts(HtmlFrags, MaxHtmlFrags)

MaxEntityFrags == 4
EntityFrags == <<"x", "&amp;", "&", ";", "&#", "60", "&bogus;">>
EntityTexts == Texts(EntityFrags, MaxEntityFrags)

MaxClozeFrags == 4
ClozeFrags ==
    <<"{{c1::", "{{c01::", "{{c65535::", "{{c65536::", "{{c~::", "x}}", "}}">>
ClozeTexts == Texts(ClozeFrags, MaxClozeFrags)

(***************************************************************************)
(* Operations: each is a pure function of its argument; the state keeps    *)
(* the argument, the operation that acted last and what it returned.       *)
(***************************************************************************)

InitWith(texts, argtexts) ==
    /\ text \in texts
    /\ args \in argtexts
    /\ op = "init"
    /\ out = NoCow
    /\ tags = <<>>
    /\ nums = {}

Returns(name, cow) ==
    /\ op' = name
    /\ out' = cow
    /\ tags' = <<>>
    /\ nums' = {}
    /\ UNCHANGED <<text, args>>

StripHtml == Returns("strip_html", strip_html(text))

DecodeEntities == Returns("decode_entities", decode_entities(text))

StripHtmlForTts == Returns("strip_html_for_tts", strip_html_for_tts(text))

StripAvTags == Returns("strip_av_tags", strip_av_tags(text))

FlagAvTags == Returns("flag_av_tags", flag_av_tags(text))

StripHtmlPreservingImageFilenames ==
    Returns("strip_html_preserving_image_filenames",
            strip_html_preserving_image_filenames(text))

\* av_tags_in_string(text).collect()
AvTagsInString ==
    /\ op' = "av_tags_in_string"
    /\ tags' = av_tags_in_string(text)
    /\ out' = NoCow
    /\ nums' = {}
    /\ UNCHANGED <<text, args>>

TtsTagFromString ==
    /\ op' = "tts_tag_from_string"
    /\ tags' = <<tts_tag_from_string(text, args)>>
    /\ out' = NoCow
    /\ nums' = {}
    /\ UNCHANGED <<text, args>>

ClozeNumbersInString ==
    /\ op' = "cloze_numbers_in_string"
    /\ nums' = cloze_numbers_in_string(text)
    /\ out' = NoCow
    /\ tags' = <<>>
    /\ UNCHANGED <<text, args>>

InitAv == InitWith(AvTexts, {""})
NextAv == StripAvTags \/ FlagAvTags \/ AvTagsInString
SpecAv == InitAv /\ [][NextAv]_vars

InitTts == InitWith(TtsTexts, {""})
NextTts == AvTagsInString \/ StripHtmlForTts
SpecTts == InitTts /\ [][NextTts]_vars

InitArgs == InitWith(FieldTexts, ArgTexts)
NextArgs == TtsTagFromString
SpecArgs == InitArgs /\ [][NextArgs]_vars

InitHtml == InitWith(HtmlTexts, {""})
NextHtml == StripHtml \/ StripHtmlPreservingImageFilenames
SpecHtml == InitHtml /\ [][NextHtml]_vars

InitEntities == InitWith(EntityTexts, {""})
NextEntities == DecodeEntities
SpecEntities == InitEntities /\ [][NextEntities]_vars

InitCloze == InitWith(ClozeTexts, {""})
NextCloze == ClozeNumbersInString
SpecCloze == InitCloze /\ [][NextCloze]_vars

(***************************************************************************)
(* C1: flag_av_tags                                                        *)
(***************************************************************************)

Placeholder(n) == "[anki:play]" \o FormatInt(n) \o "[/anki:play]"

\* How far the k-th match of caps has moved in the flagged text: the
\* placeholders before it are longer or shorter than the matches they replace.
RECURSIVE FlagShift(_, _)
FlagShift(caps, k) ==
    IF k <= 1 THEN 0
    ELSE FlagShift(caps, k - 1) + Len(Placeholder(k - 2))
            - (caps[k - 1].stop - caps[k - 1].start)

\* C1: flag_av_tags(t) holds, for the N-th directive match of t counted from
\* 0 and left to right, the placeholder [anki:play]N[/anki:play] exactly
\* where that match stood, there are as many placeholders as
\* av_tags_in_string(t) yields tags, and the text before, between and after
\* the matches is unchanged.
C1_FlagPlaceholders ==
    op = "flag_av_tags" =>
        LET caps == AvCaptures(text)
            n == Len(av_tags_in_string(text))
            pos(k) == IF k > n THEN Len(out.s) + 1
                      ELSE caps[k].start + FlagShift(caps, k)
            next(k) == IF k >= n THEN Len(text) + 1 ELSE caps[k + 1].start
        IN  /\ n = Len(caps)
            /\ n = 0 => out.s = text
            /\ SubSeq(out.s, 1, pos(1) - 1) = SubSeq(text, 1, next(0) - 1)
            /\ \A k \in 1..n :
                /\ StartsWithAt(out.s, pos(k), Placeholder(k - 1))
                /\ SubSeq(out.s, pos(k) + Len(Placeholder(k - 1)), pos(k + 1) - 1)
                      = SubSeq(text, caps[k].stop, next(k) - 1)

\* Two directives with text before them have been flagged.
C1_Witness ==
    /\ op = "flag_av_tags"
    /\ Len(AvCaptures(text)) >= 2
    /\ AvCaptures(text)[1].start > 1
    /\ AvCaptures(text)[1].alt # AvCaptures(text)[2].alt

(***************************************************************************)
(* C2: av_tags_in_string                                                   *)
(***************************************************************************)

\* C2: av_tags_in_string(t) yields one AVTag per directive match, in the
\* left-to-right order of the matches: SoundOrVideo of the entity-decoded
\* filename for a [sound:FILENAME] match, and for a
\* [anki:tts][ARGS]TEXT[/anki:tts] match a TextToSpeech whose field_text is
\* TEXT with every HTML match replaced by one space, then entity-decoded.
C2_TagPerMatch ==
    op = "av_tags_in_string" =>
        LET caps == AvCaptures(text) IN
        /\ Len(tags) = Len(caps)
        /\ \A n \in 1..(Len(caps) - 1) : caps[n].stop <= caps[n + 1].start
        /\ \A n \in 1..Len(caps) :
            LET from == caps[n].start
                upto == caps[n].stop
            IN  IF StartsWithAt(text, from, "[sound:")
                THEN tags[n] = SoundOrVideo(
                        decode_entities(SubSeq(text, from + 7, upto - 2)).s)
                ELSE LET a == Find(text, from + 11, "]")
                         TEXT == SubSeq(text, a + 1, upto - 12)
                     IN  /\ StartsWithAt(text, from, "[anki:tts][")
                         /\ tags[n].type = "TextToSpeech"
                         /\ tags[n].field_text =
                               decode_entities(HtmlReplaceAll(TEXT, "input", " ").s).s

\* A sound tag with an entity and a speech tag with an HTML tag were yielded.
C2_Witness ==
    /\ op = "av_tags_in_string"
    /\ \E n \in 1..Len(tags) : tags[n] = SoundOrVideo("&")
    /\ \E n \in 1..Len(tags) :
          tags[n].type = "TextToSpeech" /\ tags[n].field_text = "a "

(***************************************************************************)
(* C3, C4: tts_tag_from_string                                             *)
(***************************************************************************)

IsVoices(tok) == StartsWithAt(tok, 1, "voices=")

\* The positions after the first of the voices= tokens of toks.
VoicesAt(toks) == { i \in 2..Len(toks) : IsVoices(toks[i]) }

Max(S) == CHOOSE x \in S : \A y \in S : y <= x

\* C3: lang is the first space-separated token (empty for empty ARGS),
\* voices is the comma-split value of the last voices= token after the first
\* token (that token split on '='), empty when there is none, and other_args
\* is the tokens after the first that are not prefixed with voices=, in order.
C3_TtsArgs ==
    op = "tts_tag_from_string" =>
        LET toks == Split(args, " ")
            t == tags[1]
            plain(tok) == ~IsVoices(tok)
        IN  /\ t.lang = toks[1]
            /\ args = "" => t.lang = ""
            /\ t.other_args = SelectSeq(Tail(toks), plain)
            /\ IF VoicesAt(toks) = {} THEN t.voices = <<>>
               ELSE t.voices = Split(Split(toks[Max(VoicesAt(toks))], "=")[2], ",")

\* Arguments with two different voices= tokens and a plain one were parsed.
C3_Witness ==
    /\ op = "tts_tag_from_string"
    /\ \E i, j \in VoicesAt(Split(args, " ")) :
          i < j /\ Split(args, " ")[i] # Split(args, " ")[j]
    /\ tags[1].other_args # <<>>

RECURSIVE Join(_, _)
Join(seq, sep) ==
    IF seq = <<>> THEN ""
    ELSE IF Len(seq) = 1 THEN seq[1]
    ELSE seq[1] \o sep \o Join(Tail(seq), sep)

\* The multiset of the elements of seq.
BagOf(seq) ==
    [x \in {seq[i] : i \in DOMAIN seq} |->
        Cardinality({i \in DOMAIN seq : seq[i] = x})]

\* other_args together with voices counted as one logical token.
Rebuilt(t) ==
    t.other_args \o
        (IF t.voices = <<>> THEN <<>> ELSE <<"voices=" \o Join(t.voices, ",")>>)

\* C4 as stated: voices and other_args rebuild the multiset of the tokens
\* after the lang token.
C4_RoundTrip ==
    op = "tts_tag_from_string" =>
        BagOf(Rebuilt(tags[1])) = BagOf(Tail(Split(args, " ")))

\* A voices= token up to its second '='.
CutVoices(tok) == "voices=" \o Split(tok, "=")[2]

\* The tokens after the lang token that survive: every voices= token but the
\* last is dropped, and the last is cut at its second '='.
SurvivingTokens(toks) ==
    LET keep(i) == ~IsVoices(toks[i]) \/ i = Max(VoicesAt(toks))
        idx == { i \in 2..Len(toks) : keep(i) }
    IN  [x \in { IF IsVoices(toks[i]) THEN CutVoices(toks[i]) ELSE toks[i] : i \in idx } |->
            Cardinality({ i \in idx :
                (IF IsVoices(toks[i]) THEN CutVoices(toks[i]) ELSE toks[i]) = x })]

\* C4 (amended): voices and other_args rebuild the multiset of the tokens
\* after the lang token minus every voices= token but the last, the last
\* counted up to its second '='; so with at most one voices= token, holding
\* one '=', no token after the first is lost or added.
C4_RoundTripLastVoices ==
    op = "tts_tag_from_string" =>
        LET toks == Split(args, " ") IN
        /\ BagOf(Rebuilt(tags[1])) = SurvivingTokens(toks)
        /\ (/\ Cardinality(VoicesAt(toks)) <= 1
            /\ \A i \in VoicesAt(toks) : Len(Split(toks[i], "=")) = 2)
              => BagOf(Rebuilt(tags[1])) = BagOf(Tail(toks))

\* One voices= token among plain and empty tokens was parsed and rebuilt.
C4_Witness ==
    /\ op = "tts_tag_from_string"
    /\ Cardinality(VoicesAt(Split(args, " "))) = 1
    /\ Len(tags[1].voices) = 2
    /\ "" \in {tags[1].other_args[i] : i \in DOMAIN tags[1].other_args}
    /\ BagOf(Rebuilt(tags[1])) = BagOf(Tail(Split(args, " ")))

(***************************************************************************)
(* C5: strip_html                                                          *)
(***************************************************************************)

\* C5: strip_html is idempotent: stripping its result again changes
\* nothing, the result holding no match of HTML.
C5_StripHtmlIdempotent ==
    op = "strip_html" =>
        /\ strip_html(out.s).s = out.s
        /\ HtmlCaptures(out.s) = <<>>

\* Two matches were removed and what is left still holds a '<' or a '>'.
C5_Witness ==
    /\ op = "strip_html"
    /\ Len(HtmlCaptures(text)) >= 2
    /\ \E k \in 1..Len(HtmlCaptures(text)) : HtmlCaptures(text)[k].alt < 4
    /\ (Find(out.s, 1, "<") # 0 \/ Find(out.s, 1, ">") # 0)

(***************************************************************************)
(* C7: strip_html_preserving_image_filenames                               *)
(***************************************************************************)

\* C7: the result of strip_html_preserving_image_filenames(t) reads as
\* strip_html of t with every IMG_TAG match rewritten to its filename between
\* two spaces; it is the borrowed argument exactly when t holds no IMG_TAG
\* match and no HTML match, and an owned string otherwise.
C7_PreservingImageFilenames ==
    op = "strip_html_preserving_image_filenames" =>
        LET caps == ImgCaptures(text)
            rewritten ==
                ReplaceAppend(text, caps,
                              [n \in 1..Len(caps) |-> " " \o caps[n].g1 \o " "], 1, 1)
            unchanged == ImgCaptures(text) = <<>> /\ HtmlCaptures(text) = <<>>
        IN  /\ out.s = strip_html(rewritten).s
            /\ unchanged => out = Borrowed(text, "input")
            /\ ~unchanged => out.kind = "Owned"

\* Only the image rewrite changed something: the rewritten text holds no tag.
C7_Witness ==
    /\ op = "strip_html_preserving_image_filenames"
    /\ ImgCaptures(text) # <<>>
    /\ HtmlCaptures(ImgReplaceAll(text, "input").s) = <<>>
    /\ out.kind = "Owned"

(***************************************************************************)
(* C8: cloze_numbers_in_string                                             *)
(***************************************************************************)

AllAsciiDigits(d) == \A n \in 1..Len(d) : DigitValue(Char(d, n), 10) >= 0

\* The number a string of ASCII digits denotes.
RECURSIVE NatValue(_)
NatValue(d) ==
    IF d = "" THEN 0
    ELSE NatValue(SubSeq(d, 1, Len(d) - 1)) * 10 + DigitValue(Char(d, Len(d)), 10)

\* C8: cloze_numbers_in_string(t) is the set of the numbers N of the
\* {{cN::...}} matches of t whose N is made of ASCII digits and is at most
\* 65535; every match ends at the first }} after one character of content.
C8_ClozeNumbers ==
    op = "cloze_numbers_in_string" =>
        LET caps == ClozeCaptures(text)
            fits(c) == AllAsciiDigits(c.g1) /\ NatValue(c.g1) <= 65535
        IN  /\ nums = { NatValue(caps[n].g1) :
                          n \in { k \in 1..Len(caps) : fits(caps[k]) } }
            /\ \A n \in 1..Len(caps) :
                /\ StartsWithAt(text, caps[n].start, "{{c" \o caps[n].g1 \o "::")
                /\ Find(text, caps[n].start + Len(caps[n].g1) + 6, "}}")
                      = caps[n].stop - 2

\* A marker whose number no u16 holds was scanned first, and the number of a
\* later marker collected.
C8_Witness ==
    /\ op = "cloze_numbers_in_string"
    /\ LET caps == ClozeCaptures(text) IN
       /\ Len(caps) >= 2
       /\ (~AllAsciiDigits(caps[1].g1) \/ NatValue(caps[1].g1) > 65535)
       /\ nums # {}

(***************************************************************************)
(* C6: decode_entities                                                     *)
(***************************************************************************)

\* C6 as stated: decode_entities returns, and the plain text before the
\* first '&' of the text is present at the start of what it returns, whether
\* or not an entity after it is malformed.
C6_SurroundingTextKept ==
    op = "decode_entities" =>
        LET p == Find(text, 1, "&") IN
        /\ out.kind \in {"Borrowed", "Owned"}
        /\ p # 0 => StartsWithAt(out.s, 1, SubSeq(text, 1, p - 1))

(***************************************************************************)
(* C9, C10: malformed directives and strip_av_tags                         *)
(***************************************************************************)

IsOpener(s, p) == StartsWithAt(s, p, "[sound:") \/ StartsWithAt(s, p, "[anki:tts][")

\* The first opener after position p, Len(s) + 1 when there is none.
RECURSIVE NextOpener(_, _)
NextOpener(s, p) ==
    IF p >= Len(s) THEN Len(s) + 1
    ELSE IF IsOpener(s, p + 1) THEN p + 1 ELSE NextOpener(s, p + 1)

\* The position after the directive that the opener at p forms with the first
\* closing marker after it, 0 when no closing marker follows.
DirectiveStop(s, p) ==
    IF StartsWithAt(s, p, "[sound:") THEN
        LET j == Find(s, p + 7, "]") IN IF j = 0 THEN 0 ELSE j + 1
    ELSE IF StartsWithAt(s, p, "[anki:tts][") THEN
        LET j == Find(s, p + 11, "]")
            k == IF j = 0 THEN 0 ELSE Find(s, j + 1, "[/anki:tts]")
        IN  IF k = 0 THEN 0 ELSE k + 11
    ELSE 0

\* The opener at p has no closing marker of its own: none follows it before
\* the next opener.
Malformed(s, p) ==
    /\ IsOpener(s, p)
    /\ (DirectiveStop(s, p) = 0 \/ DirectiveStop(s, p) > NextOpener(s, p))

\* The directive at p is well formed: its closing marker comes before any
\* other opener.
WellFormed(s, p) == IsOpener(s, p) /\ ~Malformed(s, p)

Covered(caps, p) == \E n \in 1..Len(caps) : caps[n].start <= p /\ p < caps[n].stop

\* The characters of s outside the matches caps, in order.
RECURSIVE Uncovered(_, _, _)
Uncovered(s, caps, p) ==
    IF p > Len(s) THEN ""
    ELSE (IF Covered(caps, p) THEN "" ELSE Char(s, p)) \o Uncovered(s, caps, p + 1)

\* Two directives standing at p and right after it are matched one by one.
MatchedApart(s, caps, p) ==
    LET e == DirectiveStop(s, p)
        f == DirectiveStop(s, e)
    IN  \E n \in 1..(Len(caps) - 1) :
            /\ caps[n].start = p /\ caps[n].stop = e
            /\ caps[n + 1].start = e /\ caps[n + 1].stop = f

AvOps == {"strip_av_tags", "flag_av_tags", "av_tags_in_string"}

\* C9 as stated: an opener with no closing marker of its own lies in no
\* match, whatever follows it, so that strip_av_tags keeps its characters;
\* and two adjacent well-formed directives are matched as two.
C9_MalformedNeverMatched ==
    op \in AvOps =>
        LET caps == AvCaptures(text) IN
        /\ \A p \in 1..Len(text) : Malformed(text, p) => ~Covered(caps, p)
        /\ \A p \in 1..Len(text) :
              (WellFormed(text, p) /\ WellFormed(text, DirectiveStop(text, p)))
                  => MatchedApart(text, caps, p)

\* C9 (amended): an opener that no closing marker follows starts no match,
\* and a [sound: that no ] follows lies in no match; every match runs from
\* its opener to the first closing marker after it (which may be the closing
\* marker of a later directive); strip_av_tags returns the characters
\* outside the matches and av_tags_in_string one tag per match; two adjacent
\* directives, each closed by the first closing marker after its opener, are
\* matched as two when a match starts at the first.
C9_UnclosedOpeners ==
    op \in AvOps =>
        LET caps == AvCaptures(text) IN
        /\ \A p \in 1..Len(text) :
              (IsOpener(text, p) /\ DirectiveStop(text, p) = 0) =>
                  /\ \A n \in 1..Len(caps) : caps[n].start # p
                  /\ StartsWithAt(text, p, "[sound:") => ~Covered(caps, p)
        /\ \A n \in 1..Len(caps) :
              /\ IsOpener(text, caps[n].start)
              /\ caps[n].stop = DirectiveStop(text, caps[n].start)
        /\ \A p \in 1..Len(text) :
              (/\ DirectiveStop(text, p) # 0
               /\ DirectiveStop(text, DirectiveStop(text, p)) # 0
               /\ \E n \in 1..Len(caps) : caps[n].start = p)
                  => MatchedApart(text, caps, p)
        /\ op = "strip_av_tags" => out.s = Uncovered(text, caps, 1)
        /\ op = "av_tags_in_string" => Len(tags) = Len(caps)

\* An opener with no closing marker of its own was matched together with the
\* directive after it, and two adjacent directives were matched as two.
C9_Witness ==
    /\ op = "strip_av_tags"
    /\ \E p \in 1..Len(text) :
          Malformed(text, p) /\ \E n \in 1..2 :
              n <= Len(AvCaptures(text)) /\ AvCaptures(text)[n].start = p
    /\ \E p \in 1..Len(text) :
          /\ DirectiveStop(text, p) # 0
          /\ DirectiveStop(text, DirectiveStop(text, p)) # 0
          /\ MatchedApart(text, AvCaptures(text), p)

\* C10 as stated: the result of strip_av_tags holds no directive, and
\* stripping it again changes nothing.
C10_StripLeavesNoDirective ==
    op = "strip_av_tags" =>
        /\ av_tags_in_string(out.s) = <<>>
        /\ strip_av_tags(out.s).s = out.s

\* The number of characters of the stripped text that stand before the place
\* where the k-th match was removed.
RECURSIVE KeptBefore(_, _)
KeptBefore(caps, k) ==
    IF k = 1 THEN caps[1].start - 1
    ELSE KeptBefore(caps, k - 1) + (caps[k].start - caps[k - 1].stop)

\* C10 (amended): strip_av_tags(t) is t without its directive matches; a
\* directive in the result always spans a place where a match was removed
\* (the text on the two sides of the removal joined into it), so the result
\* holds no directive, and stripping again changes nothing, unless such a
\* join happens.
C10_NewDirectivesSpanRemovals ==
    op = "strip_av_tags" =>
        LET caps == AvCaptures(text)
            again == AvCaptures(out.s)
            removals == { KeptBefore(caps, k) : k \in 1..Len(caps) }
        IN  /\ out.s = Uncovered(text, caps, 1)
            /\ \A n \in 1..Len(again) :
                  \E r \in removals :
                      again[n].start <= r /\ r + 1 < again[n].stop
            /\ again = <<>> => strip_av_tags(out.s).s = out.s

\* Removing a match joined the text around it into a new directive.
C10_Witness ==
    /\ op = "strip_av_tags"
    /\ AvCaptures(out.s) # <<>>
    /\ Len(AvCaptures(text)) = 1

====
